---- MODULE Spec2Model ----
(***************************************************************************)
(* The native TAD stream codec (FormatImportExportTAD): the byte layout    *)
(* written by writeTad, the parser readTadHeader / readTadTagList /        *)
(* readString, the record scan of arrayCount and the stream object's       *)
(* open / read / write / close operations.  Bytes are the naturals 0..255, *)
(* a file is a sequence of bytes, a position is a 0-based byte offset.     *)
(***************************************************************************)
EXTENDS Integers, Sequences, FiniteSets, TLC

(* ------------------------------ bounds -------------------------------- *)

\* The number of writeArray calls logged for one file.
MaxRecords == 2
\* The number of handles the process may hold open at once (the descriptor
\* limit): fopen fails when it is reached.
MaxHandles == 2
\* The longest tag payload drawn for the tag block decoder.
MaxPayload == 4
\* The longest offset table: scans that abort keep what they pushed, so the
\* table of a stream that is scanned again and again grows without end.
MaxOffsets == 3

(* ------------------------------ errors -------------------------------- *)

ErrorNone == "ErrorNone"
ErrorSysErrno == "ErrorSysErrno"
ErrorInvalidData == "ErrorInvalidData"
ErrorSeekingNotSupported == "ErrorSeekingNotSupported"

(* ------------------------------- bytes -------------------------------- *)

\* std::numeric_limits<int>::max(), the cap of the offset table.
INT_MAX == 2147483647

\* Every 64-bit value of 2^24 or more: no file of the model is that long,
\* and the integers of the model have 32 bits.
Huge == 256 * 256 * 256

RECURSIVE Flatten(_)
\* The concatenation of a sequence of byte sequences.
Flatten(ss) == IF ss = <<>> THEN <<>> ELSE Head(ss) \o Flatten(Tail(ss))

\* memcpy of a uint64_t into the output: 8 bytes, host (little-endian) order.
U64(v) == [i \in 1..8 |-> IF i <= 3 THEN (v \div (256 ^ (i - 1))) % 256 ELSE 0]

\* memcpy of 8 bytes at offset pos into a uint64_t.
ReadU64(bytes, pos) ==
    IF \E i \in 4..8 : bytes[pos + i] # 0
    THEN Huge
    ELSE bytes[pos + 1] + 256 * bytes[pos + 2] + 256 * 256 * bytes[pos + 3]

\* A byte seen through `char`, which is signed on the targets of this build.
AsChar(b) == IF b >= 128 THEN b - 256 ELSE b

(* ------------------------- TagList, ArrayContainer -------------------- *)

\* TagList::set: a new key is appended, an existing key keeps its place and
\* gets the new value.  A TagList is a sequence of <<key, value>> pairs.
TagSet(tl, key, value) ==
    IF \E j \in 1..Len(tl) : tl[j][1] = key
    THEN [j \in 1..Len(tl) |-> IF tl[j][1] = key THEN <<key, value>> ELSE tl[j]]
    ELSE Append(tl, <<key, value>>)

\* The size in bytes of one component of each type code 0..15.
TypeSize(t) ==
    CASE t \in {0, 1} -> 1
      [] t \in {2, 3} -> 2
      [] t \in {4, 5, 8} -> 4
      [] t \in {6, 7, 9} -> 8
      [] OTHER -> 16

RECURSIVE Product(_)
Product(dims) == IF dims = <<>> THEN 1 ELSE Head(dims) * Product(Tail(dims))

\* ArrayContainer::elementCount: no dimensions, no elements.
elementCount(dims) == IF dims = <<>> THEN 0 ELSE Product(dims)

\* ArrayContainer::dataSize of a container of that shape.
ShapeDataSize(dims, comps, type) == TypeSize(type) * comps * elementCount(dims)

dataSize(array) ==
    ShapeDataSize(array.dimensions, array.componentCount, array.componentType)

\* ArrayContainer(dimensions, components, type): empty tag lists in the
\* three scopes and a buffer of dataSize bytes.
ArrayContainer(dims, comps, type) ==
    [dimensions |-> dims, componentCount |-> comps, componentType |-> type,
     globalTagList |-> <<>>,
     componentTagLists |-> [c \in 1..comps |-> <<>>],
     dimensionTagLists |-> [d \in 1..Len(dims) |-> <<>>],
     data |-> [b \in 1..ShapeDataSize(dims, comps, type) |-> 0]]

\* ArrayContainer(): the default container readArray returns on an error.
EmptyArray == ArrayContainer(<<>>, 0, 0)

(* ------------------------------- writer ------------------------------- *)

\* The payload of a tag block: for every pair the key, NUL, the value, NUL.
TagPayload(tl) ==
    Flatten([j \in 1..Len(tl) |-> tl[j][1] \o <<0>> \o tl[j][2] \o <<0>>])

\* The bytes writeTadTagList hands to fwrite: the length n, then n bytes.
\* The block is never empty (8 bytes at least), so this fwrite succeeds.
writeTadTagList(tl) == U64(Len(TagPayload(tl))) \o TagPayload(tl)

\* The vector `start` of writeTad: magic, reserved, type, counts, sizes.
HeaderBytes(array) ==
    <<84, 65, 68, 0, array.componentType>>
    \o U64(array.componentCount) \o U64(Len(array.dimensions))
    \o Flatten([d \in 1..Len(array.dimensions) |-> U64(array.dimensions[d])])

\* writeTad on a writable stream: the bytes it emits and what it returns.
\* The last fwrite(data, dataSize, 1, f) answers 0, not 1, when dataSize
\* is 0: the record is emitted whole and the call still reports a failure.
writeTad(array) ==
    [bytes |-> HeaderBytes(array)
               \o writeTadTagList(array.globalTagList)
               \o Flatten([c \in 1..array.componentCount |->
                             writeTadTagList(array.componentTagLists[c])])
               \o Flatten([d \in 1..Len(array.dimensions) |->
                             writeTadTagList(array.dimensionTagLists[d])])
               \o array.data,
     ok |-> dataSize(array) > 0]

(* ------------------------------- stdio -------------------------------- *)

Max(a, b) == IF a >= b THEN a ELSE b

\* fread(ptr, size, 1, f) at offset pos of a file holding `bytes`: whether it
\* answers 1, and the offset it leaves.  A size of 0 answers 0 and moves
\* nothing; a short read consumes what is left; a stream opened for writing
\* cannot be read.
Fread(bytes, pos, readable, size) ==
    [ok |-> readable /\ size > 0 /\ pos + size <= Len(bytes),
     pos |-> IF ~readable \/ size = 0 THEN pos
             ELSE IF pos + size <= Len(bytes) THEN pos + size
             ELSE Max(pos, Len(bytes))]

\* fgetc(f) # EOF, the test of hasMore; ungetc puts the byte back.
MoreBytes(bytes, pos, readable) == readable /\ pos < Len(bytes)

(* ------------------------------- reader ------------------------------- *)

RECURSIVE ScanString(_, _, _)
\* The loop of readString over the memory `mem` from offset start, at index
\* i.  The loop knows no end of the buffer: past the last byte of mem the
\* read is out of bounds and the process may fault ("Crash").  On the NUL
\* terminator len is i after its increment: the length plus one.
ScanString(mem, start, i) ==
    IF start + i >= Len(mem)
    THEN [ok |-> FALSE, crash |-> TRUE, len |-> 0, s |-> <<>>]
    ELSE LET c == mem[start + i + 1]
         IN  IF c = 0
             THEN [ok |-> TRUE, crash |-> FALSE, len |-> i + 1,
                   s |-> SubSeq(mem, start + 1, start + i)]
             ELSE IF AsChar(c) < 32 \/ c = 127
             THEN [ok |-> FALSE, crash |-> FALSE, len |-> 0, s |-> <<>>]
             ELSE ScanString(mem, start, i + 1)

readString(mem, start) == ScanString(mem, start, 0)

RECURSIVE ParseTags(_, _, _, _)
\* The for loop of readTadTagList over the n payload bytes (mem is the
\* payload followed by whatever the heap holds behind it), from offset i.
ParseTags(mem, n, i, tl) ==
    IF i >= n THEN [error |-> ErrorNone, tl |-> tl]
    ELSE LET k == readString(mem, i)
         IN  IF k.crash THEN [error |-> "Crash", tl |-> tl]
             ELSE IF ~k.ok \/ i + k.len + 1 >= n
             THEN [error |-> ErrorInvalidData, tl |-> tl]
             ELSE LET v == readString(mem, i + k.len + 1)
                  IN  IF v.crash THEN [error |-> "Crash", tl |-> tl]
                      ELSE IF ~v.ok THEN [error |-> ErrorInvalidData, tl |-> tl]
                      ELSE ParseTags(mem, n, i + k.len + 1 + v.len + 1,
                                     TagSet(tl, k.s, v.s))

\* readTadTagList at offset pos: the error, the offset left and the TagList.
\* oob is what lies behind the payload buffer in memory.  A length of Huge
\* is longer than any file here, so the second fread fails.
readTadTagList(bytes, pos, readable, oob) ==
    LET r1 == Fread(bytes, pos, readable, 8)
        n == ReadU64(bytes, pos)
        r2 == Fread(bytes, r1.pos, readable, n)
        p == ParseTags(SubSeq(bytes, r1.pos + 1, r1.pos + n) \o oob, n, 0, <<>>)
    IN  IF ~r1.ok THEN [error |-> ErrorSysErrno, pos |-> r1.pos, tl |-> <<>>]
        ELSE IF ~r2.ok THEN [error |-> ErrorSysErrno, pos |-> r2.pos, tl |-> <<>>]
        ELSE [error |-> p.error, pos |-> r2.pos, tl |-> p.tl]

RECURSIVE ReadTagLists(_, _, _, _, _)
\* The loops of readTadHeader over the component and the dimension tag
\* lists: count tag blocks one after the other, up to the first error.
ReadTagLists(bytes, pos, readable, oob, count) ==
    IF count = 0 THEN [error |-> ErrorNone, pos |-> pos, tls |-> <<>>]
    ELSE LET r == readTadTagList(bytes, pos, readable, oob)
         IN  IF r.error # ErrorNone
             THEN [error |-> r.error, pos |-> r.pos, tls |-> <<>>]
             ELSE LET rest == ReadTagLists(bytes, r.pos, readable, oob, count - 1)
                  IN  [error |-> rest.error, pos |-> rest.pos,
                       tls |-> <<r.tl>> \o rest.tls]

\* A header test that lets the type code 16 through.
HeaderInvalidAbove16(bytes, pos) ==
    \/ bytes[pos + 1] # 84 \/ bytes[pos + 2] # 65 \/ bytes[pos + 3] # 68
    \/ bytes[pos + 4] # 0
    \/ bytes[pos + 5] > 16

\* The test of readTadHeader on the 21 bytes at offset pos (size_t has 64
\* bits, so the two counts are always representable).
HeaderInvalid(bytes, pos) ==
    \/ bytes[pos + 1] # 84 \/ bytes[pos + 2] # 65 \/ bytes[pos + 3] # 68
    \/ bytes[pos + 4] # 0
    \/ bytes[pos + 5] > 15

\* readTadHeader at offset pos: the error, the offset left and the container
\* (shape and tag lists; its data is not read here).
readTadHeader(bytes, pos, readable, oob) ==
    LET r1 == Fread(bytes, pos, readable, 21)
        compCount == ReadU64(bytes, pos + 5)
        dimCount == ReadU64(bytes, pos + 13)
        dimsOk == dimCount = 0 \/ (readable /\ r1.pos + 8 * dimCount <= Len(bytes))
        p2 == IF dimCount = 0 \/ ~readable THEN r1.pos
              ELSE IF dimsOk THEN r1.pos + 8 * dimCount
              ELSE Max(r1.pos, Len(bytes))
        dims == [d \in 1..dimCount |-> ReadU64(bytes, r1.pos + 8 * (d - 1))]
        array == ArrayContainer(dims, compCount, bytes[pos + 5])
        g == readTadTagList(bytes, p2, readable, oob)
        c == ReadTagLists(bytes, g.pos, readable, oob, compCount)
        d == ReadTagLists(bytes, c.pos, readable, oob, dimCount)
    IN  IF ~r1.ok THEN [error |-> ErrorSysErrno, pos |-> r1.pos, array |-> EmptyArray]
        ELSE IF HeaderInvalid(bytes, pos)
        THEN [error |-> ErrorInvalidData, pos |-> r1.pos, array |-> EmptyArray]
        ELSE IF ~dimsOk THEN [error |-> ErrorSysErrno, pos |-> p2, array |-> EmptyArray]
        ELSE IF g.error # ErrorNone
        THEN [error |-> g.error, pos |-> g.pos, array |-> EmptyArray]
        ELSE IF c.error # ErrorNone
        THEN [error |-> c.error, pos |-> c.pos, array |-> EmptyArray]
        ELSE IF d.error # ErrorNone
        THEN [error |-> d.error, pos |-> d.pos, array |-> EmptyArray]
        ELSE [error |-> ErrorNone, pos |-> d.pos,
              array |-> [array EXCEPT !.globalTagList = g.tl,
                                      !.componentTagLists = c.tls,
                                      !.dimensionTagLists = d.tls]]

\* readTadData: fread(array.data(), array.dataSize(), 1, f) == 1.
readTadData(bytes, pos, readable, array) ==
    LET r == Fread(bytes, pos, readable, dataSize(array))
    IN  [ok |-> r.ok, pos |-> r.pos,
         array |-> IF r.ok
                   THEN [array EXCEPT !.data = SubSeq(bytes, pos + 1, pos + dataSize(array))]
                   ELSE array]

(* ------------------------- record scan, read -------------------------- *)

RECURSIVE ScanRecords(_, _, _, _, _)
\* One turn of the while loop of arrayCount at offset pos, h being what
\* readTadHeader answered there: `return -1` on an error, else the push of
\* pos, skipTadData, the INT_MAX cap and the next turn.
ScanStep(bytes, pos, readable, offsets, oob, h) ==
    LET pushed == Append(offsets, pos)
        skipped == h.pos + dataSize(h.array)
    IN  IF h.error = "Crash"
        THEN [end |-> "crash", pos |-> h.pos, offsets |-> offsets]
        ELSE IF h.error # ErrorNone
        THEN [end |-> "abort", pos |-> h.pos, offsets |-> offsets]
        ELSE IF Len(pushed) = INT_MAX /\ MoreBytes(bytes, skipped, readable)
        THEN [end |-> "cap", pos |-> skipped, offsets |-> <<>>]
        ELSE ScanRecords(bytes, skipped, readable, pushed, oob)

\* The while loop of arrayCount from offset pos: how it ends ("eof" when
\* hasMore() answers false, "abort" at `return -1`, "cap" at the INT_MAX
\* cap, "crash" on a fault), the offset it leaves and the offsets pushed.
\* ftello succeeded before the loop, so it succeeds in it, and so does the
\* fseeko of skipTadData, which may well seek past the end of the file.
ScanRecords(bytes, pos, readable, offsets, oob) ==
    IF ~MoreBytes(bytes, pos, readable)
    THEN [end |-> "eof", pos |-> pos, offsets |-> offsets]
    ELSE ScanStep(bytes, pos, readable, offsets, oob,
                  readTadHeader(bytes, pos, readable, oob))

\* The absent handle, and an open one: the file's name, the offset of the
\* stream, the mode given to fopen and the bytes written but not flushed.
NULL == [name |-> "", pos |-> 0, mode |-> "null", buf |-> <<>>]

\* Whether a call of arrayCount gets to rewind(_f).
Rewinds(f, count, seek) == count < -1 /\ f # NULL /\ seek

\* What arrayCount leaves once its loop has ended as s tells: the loop
\* began with rewind(_f), which flushed the buffer of the handle f.  Only
\* the loop's regular end and the cap store a count; only the regular end
\* seeks back to where the stream stood.
Scanned(f, count, s) ==
    LET g == [f EXCEPT !.buf = <<>>]
    IN  CASE s.end = "crash" ->
               [ret |-> -1, f |-> [g EXCEPT !.pos = s.pos], count |-> count,
                offsets |-> s.offsets, crash |-> TRUE]
          [] s.end = "abort" ->
               [ret |-> -1, f |-> [g EXCEPT !.pos = s.pos], count |-> count,
                offsets |-> s.offsets, crash |-> FALSE]
          [] s.end = "cap" ->
               [ret |-> -1, f |-> [g EXCEPT !.pos = s.pos], count |-> -1,
                offsets |-> <<>>, crash |-> FALSE]
          [] OTHER ->
               [ret |-> Len(s.offsets), f |-> g, count |-> Len(s.offsets),
                offsets |-> s.offsets, crash |-> FALSE]

\* FormatImportExportTAD::arrayCount on the object state (f, count,
\* offsets); bytes and seek are the content and the seekability of the
\* open file.  It answers the returned int and the object state it leaves.
arrayCount(f, count, offsets, bytes, seek, oob) ==
    IF count >= -1
    THEN [ret |-> count, f |-> f, count |-> count, offsets |-> offsets, crash |-> FALSE]
    ELSE IF f = NULL
    THEN [ret |-> -1, f |-> f, count |-> count, offsets |-> offsets, crash |-> FALSE]
    ELSE IF ~seek
    THEN [ret |-> -1, f |-> f, count |-> -1, offsets |-> offsets, crash |-> FALSE]
    ELSE Scanned(f, count, ScanRecords(bytes, 0, f.mode = "rb", offsets, oob))

\* The end of readArray, h being what readTadHeader answered at the offset
\* of the handle f: the data is read when the header was.  hpos is the
\* offset the header was parsed at.  *error is written on a failure only.
RecordAfter(f, bytes, error, h) ==
    LET d == readTadData(bytes, h.pos, f.mode = "rb", h.array)
    IN  IF h.error = "Crash"
        THEN [array |-> EmptyArray, error |-> error, pos |-> h.pos,
              hpos |-> f.pos, crash |-> TRUE]
        ELSE IF h.error # ErrorNone
        THEN [array |-> EmptyArray, error |-> h.error, pos |-> h.pos,
              hpos |-> f.pos, crash |-> FALSE]
        ELSE IF ~d.ok
        THEN [array |-> EmptyArray, error |-> ErrorSysErrno, pos |-> d.pos,
              hpos |-> f.pos, crash |-> FALSE]
        ELSE [array |-> d.array, error |-> error, pos |-> d.pos,
              hpos |-> f.pos, crash |-> FALSE]

\* The part of readArray after the seek: header, then data, from the
\* handle f.
readRecord(f, bytes, error, oob) ==
    RecordAfter(f, bytes, error, readTadHeader(bytes, f.pos, f.mode = "rb", oob))

\* What readArray answers when it has read the record r through the handle
\* g, the cached count and the offset table being c and o.
ReadThrough(g, c, o, r) ==
    [array |-> r.array, error |-> r.error, f |-> [g EXCEPT !.pos = r.pos],
     count |-> c, offsets |-> o, hpos |-> r.hpos, crash |-> r.crash]

\* The branch `arrayIndex >= 0` of readArray, ac being what arrayCount
\* answered and left: the three early returns, then the seek and the read.
\* fseeko cannot fail here: arrayCount answers -1 on an unseekable stream.
ReadIndexed(bytes, seek, error, arrayIndex, oob, ac) ==
    LET sought == [ac.f EXCEPT !.pos = ac.offsets[arrayIndex + 1]]
        stop(e) == [array |-> EmptyArray, error |-> e, f |-> ac.f, count |-> ac.count,
                    offsets |-> ac.offsets, hpos |-> -1, crash |-> FALSE]
    IN  IF ac.crash THEN [stop(error) EXCEPT !.crash = TRUE]
        ELSE IF ac.ret < 0 THEN stop(ErrorSeekingNotSupported)
        ELSE IF arrayIndex >= ac.ret THEN stop(ErrorInvalidData)
        ELSE IF ~seek THEN stop(ErrorSysErrno)
        ELSE ReadThrough(sought, ac.count, ac.offsets,
                         readRecord(sought, bytes, error, oob))

\* FormatImportExportTAD::readArray(error, arrayIndex) on an open handle:
\* the returned container, the caller's error variable (untouched on
\* success) and the object state the call leaves.
readArray(f, count, offsets, bytes, seek, error, arrayIndex, oob) ==
    IF arrayIndex < 0
    THEN ReadThrough(f, count, offsets, readRecord(f, bytes, error, oob))
    ELSE ReadIndexed(bytes, seek, error, arrayIndex, oob,
                     arrayCount(f, count, offsets, bytes, seek, oob))

(* ------------------------------- inputs ------------------------------- *)

\* The media of the model: "f" is a regular file the stream creates and
\* writes, "g" is a medium that exists beforehand and is write-protected.
Media == {"f", "g"}

\* The tag list {"k": "vw"}.
KeyValue == << <<(<<107>>), <<118, 119>> >> >>

\* A 2-element uint8 array without tags.
PlainArray ==
    [ArrayContainer(<<2>>, 1, 1) EXCEPT !.data = <<10, 11>>]

\* A 1-element uint8 array with {"k": "vw"} in the three scopes.
TaggedArray ==
    [ArrayContainer(<<1>>, 1, 1) EXCEPT !.globalTagList = KeyValue,
                                        !.componentTagLists = <<KeyValue>>,
                                        !.dimensionTagLists = <<KeyValue>>,
                                        !.data = <<12>>]

\* A degenerate array: no dimensions, no components, no data.
NoDataArray == ArrayContainer(<<>>, 0, 1)

\* The containers handed to writeArray.
Arrays == {PlainArray, TaggedArray, NoDataArray}

\* What may lie in memory behind a heap buffer: nothing readable, a NUL,
\* or a printable byte and a NUL.
OobChoices == {<<>>, <<0>>, <<118, 0>>}

\* The indices given to readArray: -1 is "the next record".
Indices == -1 .. MaxRecords

(* ------------------------------- state -------------------------------- *)

VARIABLES
    fs,             \* the content of each medium
    seekable,       \* whether ftello / fseeko work on each medium
    wlog,           \* per medium, the writeArray calls that emitted bytes
    _f,             \* the stream's FILE*
    _arrayCount,    \* the cached count: -2 not computed, -1 unknown
    _arrayOffsets,  \* the offset table
    nOpen,          \* the handles the process holds open
    pc,             \* "run", or "crashed" after a fault
    op,             \* the last call: its name, index and offsets
    ret,            \* what the last call returned
    error           \* the caller's Error variable, set through Error*

vars == <<fs, seekable, wlog, _f, _arrayCount, _arrayOffsets, nOpen, pc, op, ret, error>>

NoRet == [error |-> ErrorNone, array |-> EmptyArray, count |-> 0, more |-> FALSE,
          tl |-> <<>>]

\* A call: its name, the index given to readArray, the offset of the stream
\* before it, the offset readArray parsed a header at (-1: none) and, for
\* close and the destructor, whether the call before it was close.
Call(name, index, pos0, hpos) ==
    [name |-> name, index |-> index, pos0 |-> pos0, hpos |-> hpos,
     afterClose |-> name \in {"close", "destroy"} /\ op.name = "close"]

RECURSIVE LogOf(_, _)
\* The log of the records arrays[1..] written one after the other from
\* offset at, each by a successful writeArray.
LogOf(arrays, at) ==
    IF arrays = <<>> THEN <<>>
    ELSE <<[array |-> Head(arrays), offset |-> at, append |-> FALSE, ok |-> TRUE]>>
         \o LogOf(Tail(arrays), at + Len(writeTad(Head(arrays)).bytes))

\* The bytes a log describes: its records back to back.
LogBytes(log) == Flatten([i \in 1..Len(log) |-> writeTad(log[i].array).bytes])

\* The state after the constructor, the media given.
Constructed(content, log, seek) ==
    /\ fs = [m \in Media |-> IF m = "g" THEN content ELSE <<>>]
    /\ seekable = [m \in Media |-> m = "f" \/ seek]
    /\ wlog = [m \in Media |-> IF m = "g" THEN log ELSE <<>>]
    /\ _f = NULL
    /\ _arrayCount = -2
    /\ _arrayOffsets = <<>>
    /\ nOpen = 0
    /\ pc = "run"
    /\ op = Call("new", -1, -1, -1)
    /\ ret = NoRet
    /\ error = ErrorNone

\* g holds one record.
Init == Constructed(writeTad(TaggedArray).bytes, LogOf(<<TaggedArray>>, 0), TRUE)

(* ------------------------------ actions ------------------------------- *)

\* fopen: it fails at the descriptor limit, and for writing on g.
Fopen(m, mode) ==
    IF nOpen >= MaxHandles \/ (mode # "rb" /\ m = "g") THEN NULL
    ELSE [name |-> m, mode |-> mode, buf |-> <<>>,
          pos |-> IF mode = "ab" THEN Len(fs[m]) ELSE 0]

\* openForReading: the handle held before is overwritten, not closed.
OpenForReading(m) ==
    /\ pc = "run"
    /\ _f' = Fopen(m, "rb")
    /\ nOpen' = IF _f' = NULL THEN nOpen ELSE nOpen + 1
    /\ ret' = [NoRet EXCEPT !.error = IF _f' = NULL THEN ErrorSysErrno ELSE ErrorNone]
    /\ op' = Call("openForReading", -1, -1, -1)
    /\ UNCHANGED <<fs, seekable, wlog, _arrayCount, _arrayOffsets, pc, error>>

\* openForWriting: "wb" truncates the file, "ab" keeps it and writes at
\* its end.
OpenForWriting(m, append) ==
    /\ pc = "run"
    /\ _f' = Fopen(m, IF append THEN "ab" ELSE "wb")
    /\ nOpen' = IF _f' = NULL THEN nOpen ELSE nOpen + 1
    /\ fs' = IF _f' # NULL /\ ~append THEN [fs EXCEPT ![m] = <<>>] ELSE fs
    /\ wlog' = IF _f' # NULL /\ ~append THEN [wlog EXCEPT ![m] = <<>>] ELSE wlog
    /\ ret' = [NoRet EXCEPT !.error = IF _f' = NULL THEN ErrorSysErrno ELSE ErrorNone]
    /\ op' = Call("openForWriting", -1, -1, -1)
    /\ UNCHANGED <<seekable, _arrayCount, _arrayOffsets, pc, error>>

\* The media after the stream f has flushed its buffer: this stream is the
\* only writer, so the buffer lands at the end of the file.
Flushed(f) == IF f = NULL THEN fs ELSE [fs EXCEPT ![f.name] = @ \o f.buf]

\* close that keeps the handle it failed to close.
CloseKeepsFailed(fails) ==
    /\ pc = "run"
    /\ _f # NULL \/ ~fails
    /\ fs' = IF fails THEN fs ELSE Flushed(_f)
    /\ _f' = IF fails THEN _f ELSE NULL
    /\ nOpen' = IF _f = NULL THEN nOpen ELSE nOpen - 1
    /\ ret' = [NoRet EXCEPT !.error = IF fails THEN ErrorSysErrno ELSE ErrorNone]
    /\ op' = Call("close", -1, -1, -1)
    /\ UNCHANGED <<seekable, wlog, _arrayCount, _arrayOffsets, pc, error>>

\* close: fclose releases the handle whether or not it reports a failure;
\* when it fails the buffered bytes are not written.
Close(fails) ==
    /\ pc = "run"
    /\ _f # NULL \/ ~fails
    /\ fs' = IF fails THEN fs ELSE Flushed(_f)
    /\ _f' = NULL
    /\ nOpen' = IF _f = NULL THEN nOpen ELSE nOpen - 1
    /\ ret' = [NoRet EXCEPT !.error = IF fails THEN ErrorSysErrno ELSE ErrorNone]
    /\ op' = Call("close", -1, -1, -1)
    /\ UNCHANGED <<seekable, wlog, _arrayCount, _arrayOffsets, pc, error>>

\* The destructor: fclose(_f) if a handle is held; its result is ignored
\* and the buffered bytes are written when it succeeds.  The object is
\* gone afterwards, and _f is not reset.
Destroy(fails) ==
    /\ pc = "run"
    /\ _f # NULL \/ ~fails
    /\ fs' = IF fails THEN fs ELSE Flushed(_f)
    /\ nOpen' = IF _f = NULL THEN nOpen ELSE nOpen - 1
    /\ pc' = "destroyed"
    /\ ret' = NoRet
    /\ op' = Call("destroy", -1, -1, -1)
    /\ UNCHANGED <<seekable, wlog, _f, _arrayCount, _arrayOffsets, error>>

\* writeArray on an open stream.  On a stream opened for reading the first
\* fwrite fails and nothing is emitted.
WriteArray(array) ==
    /\ pc = "run"
    /\ _f # NULL
    /\ Len(wlog[_f.name]) < MaxRecords
    /\ LET w == writeTad(array)
       IN  IF _f.mode = "rb"
           THEN /\ ret' = [NoRet EXCEPT !.error = ErrorSysErrno]
                /\ UNCHANGED <<wlog, _f>>
           ELSE /\ wlog' = [wlog EXCEPT ![_f.name] =
                              Append(@, [array |-> array, offset |-> _f.pos,
                                         append |-> _f.mode = "ab", ok |-> w.ok])]
                /\ _f' = [_f EXCEPT !.pos = @ + Len(w.bytes), !.buf = @ \o w.bytes]
                /\ ret' = [NoRet EXCEPT !.error = IF w.ok THEN ErrorNone ELSE ErrorSysErrno]
    /\ op' = Call("writeArray", -1, _f.pos, -1)
    /\ UNCHANGED <<fs, seekable, _arrayCount, _arrayOffsets, nOpen, pc, error>>

\* The content and the seekability of the file behind the handle f.
Content(f) == IF f = NULL THEN <<>> ELSE fs[f.name]
Seeks(f) == f # NULL /\ seekable[f.name]

\* arrayCount().
ArrayCount(oob) ==
    /\ pc = "run"
    /\ \E r \in {arrayCount(_f, _arrayCount, _arrayOffsets, Content(_f),
                               Seeks(_f), oob)} :
           /\ Len(r.offsets) <= MaxOffsets
           /\ fs' = IF Rewinds(_f, _arrayCount, Seeks(_f)) THEN Flushed(_f) ELSE fs
           /\ _f' = r.f
           /\ _arrayCount' = r.count
           /\ _arrayOffsets' = r.offsets
           /\ pc' = IF r.crash THEN "crashed" ELSE "run"
           /\ ret' = [NoRet EXCEPT !.count = r.ret]
    /\ op' = Call("arrayCount", -1, _f.pos, -1)
    /\ UNCHANGED <<seekable, wlog, nOpen, error>>

\* readArray(&error, arrayIndex) on an open stream.
ReadArray(arrayIndex, oob) ==
    /\ pc = "run"
    /\ _f # NULL
    /\ \E r \in {readArray(_f, _arrayCount, _arrayOffsets, Content(_f),
                              Seeks(_f), error, arrayIndex, oob)} :
           /\ Len(r.offsets) <= MaxOffsets
           /\ fs' = IF arrayIndex >= 0 /\ Rewinds(_f, _arrayCount, Seeks(_f))
                    THEN Flushed(_f) ELSE fs
           /\ _f' = r.f
           /\ _arrayCount' = r.count
           /\ _arrayOffsets' = r.offsets
           /\ pc' = IF r.crash THEN "crashed" ELSE "run"
           /\ ret' = [NoRet EXCEPT !.array = r.array]
           /\ error' = r.error
           /\ op' = Call("readArray", arrayIndex, _f.pos, r.hpos)
    /\ UNCHANGED <<seekable, wlog, nOpen>>

\* hasMore() on an open stream: fgetc, then ungetc.
HasMore ==
    /\ pc = "run"
    /\ _f # NULL
    /\ ret' = [NoRet EXCEPT !.more = MoreBytes(fs[_f.name], _f.pos, _f.mode = "rb")]
    /\ op' = Call("hasMore", -1, _f.pos, -1)
    /\ UNCHANGED <<fs, seekable, wlog, _f, _arrayCount, _arrayOffsets, nOpen, pc, error>>

\* A stream reads through a handle opened for reading and writes through
\* one opened for writing.
Reading == _f # NULL /\ _f.mode = "rb"
Writing == _f # NULL /\ _f.mode # "rb"

\* A stream that creates, writes and reads the file f; its caller opens it
\* when it is closed.
Next ==
    \/ _f = NULL /\ OpenForReading("f")
    \/ \E append \in BOOLEAN : _f = NULL /\ OpenForWriting("f", append)
    \/ \E fails \in BOOLEAN : Close(fails)
    \/ \E array \in Arrays : Writing /\ WriteArray(array)
    \/ \E oob \in OobChoices : ~Writing /\ ArrayCount(oob)
    \/ \E arrayIndex \in Indices, oob \in OobChoices : Reading /\ ReadArray(arrayIndex, oob)
    \/ Reading /\ HasMore

Spec == Init /\ [][Next]_vars

(* --------------------------- the file handle --------------------------- *)

\* A stream whose caller opens, writes, reads, closes and destroys it in
\* any order, opening it again while it is open included.
NextHandle ==
    \/ \E m \in Media : OpenForReading(m)
    \/ \E m \in Media, append \in BOOLEAN : OpenForWriting(m, append)
    \/ \E fails \in BOOLEAN : Close(fails)
    \/ \E fails \in BOOLEAN : Destroy(fails)
    \/ Writing /\ WriteArray(TaggedArray)
    \/ \E oob \in OobChoices : Reading /\ ReadArray(-1, oob)
    \/ Reading /\ HasMore

SpecHandle == Init /\ [][NextHandle]_vars

(* ----------------------------- the JPEG codec -------------------------- *)

ErrorFeaturesUnsupported == "ErrorFeaturesUnsupported"

\* The type code of the component type uint8.
uint8 == 1

\* A size_t above the range of the model's integers: high * 2^31 + low.
Size(high, low) == [high |-> high, low |-> low]

\* The shapes handed to the JPEG writeArray: one, two and three
\* dimensions, and sizes on both sides of the two limits 1 and 2^31 - 1.
JpegShapes ==
    {<<Size(0, 1)>>, <<Size(0, 1), Size(0, 1), Size(0, 1)>>,
     <<Size(0, 1), Size(0, 1)>>, <<Size(0, INT_MAX), Size(0, INT_MAX)>>,
     <<Size(0, 0), Size(0, 1)>>, <<Size(0, 1), Size(0, 0)>>,
     <<Size(1, 0), Size(0, 1)>>, <<Size(0, 1), Size(1, 0)>>,
     <<Size(0, INT_MAX), Size(1, 0)>>}

\* The containers handed to the JPEG writeArray: these shapes, zero to
\* four components, uint8 or another type.
JpegArrays ==
    [dimensions : JpegShapes, componentCount : 0..4, componentType : {0, uint8}]

\* The test of writeArray that lets uint8 containers of two components
\* through.
FeaturesUnsupportedAbove3(array) ==
    IF Len(array.dimensions) # 2 THEN TRUE
    ELSE \/ array.dimensions[1] = Size(0, 0) \/ array.dimensions[2] = Size(0, 0)
         \/ array.dimensions[1].high > 0 \/ array.dimensions[2].high > 0
         \/ array.componentType # uint8
         \/ (array.componentCount < 1 \/ array.componentCount > 3)

\* The test at the head of FormatImportExportJPEG::writeArray; a size_t is
\* <= 0 when it is 0 and > 0x7fffffff when it is 2^31 or more.
FeaturesUnsupported(array) ==
    IF Len(array.dimensions) # 2 THEN TRUE
    ELSE \/ array.dimensions[1] = Size(0, 0) \/ array.dimensions[2] = Size(0, 0)
         \/ array.dimensions[1].high > 0 \/ array.dimensions[2].high > 0
         \/ array.componentType # uint8
         \/ (array.componentCount # 1 /\ array.componentCount # 3)

\* What libjpeg emits for a container: the markers SOI and EOI around the
\* compressed image, of which the model keeps the component count.
JpegStream(array) == <<255, 216, array.componentCount, 255, 217>>

\* FormatImportExportJPEG::openForWriting: append is refused before any
\* fopen; else the file is created or truncated, the handle held before
\* overwritten.
JpegOpenForWriting(m, append) ==
    /\ pc = "run"
    /\ _f' = IF append THEN _f ELSE Fopen(m, "wb")
    /\ nOpen' = IF append \/ _f' = NULL THEN nOpen ELSE nOpen + 1
    /\ fs' = IF ~append /\ _f' # NULL THEN [fs EXCEPT ![m] = <<>>] ELSE fs
    /\ wlog' = IF ~append /\ _f' # NULL THEN [wlog EXCEPT ![m] = <<>>] ELSE wlog
    /\ ret' = [NoRet EXCEPT !.error = IF append THEN ErrorFeaturesUnsupported
                                      ELSE IF _f' = NULL THEN ErrorSysErrno
                                      ELSE ErrorNone]
    /\ op' = Call("openForWriting", -1, -1, -1)
    /\ UNCHANGED <<seekable, _arrayCount, _arrayOffsets, pc, error>>

\* FormatImportExportJPEG::close: void; the handle is closed and dropped.
JpegClose ==
    /\ pc = "run"
    /\ _f' = NULL
    /\ nOpen' = IF _f = NULL THEN nOpen ELSE nOpen - 1
    /\ ret' = NoRet
    /\ op' = Call("close", -1, -1, -1)
    /\ UNCHANGED <<fs, seekable, wlog, _arrayCount, _arrayOffsets, pc, error>>

\* FormatImportExportJPEG::writeArray.  A refused container returns before
\* _f is used.  Else libjpeg writes through _f: without a handle the
\* process faults; the stream is flushed by fflush, whose failure (the
\* bytes are lost) is ErrorSysErrno.
JpegWriteArray(array, flushFails) ==
    /\ pc = "run"
    /\ IF FeaturesUnsupported(array) \/ _f = NULL THEN TRUE
       ELSE Len(fs[_f.name]) < MaxRecords * Len(JpegStream(array))
    /\ IF FeaturesUnsupported(array)
       THEN /\ ret' = [NoRet EXCEPT !.error = ErrorFeaturesUnsupported]
            /\ UNCHANGED <<fs, pc>>
       ELSE IF _f = NULL
       THEN /\ pc' = "crashed"
            /\ ret' = NoRet
            /\ UNCHANGED fs
       ELSE /\ fs' = IF flushFails THEN fs
                     ELSE [fs EXCEPT ![_f.name] = @ \o JpegStream(array)]
            /\ ret' = [NoRet EXCEPT !.error = IF flushFails THEN ErrorSysErrno
                                              ELSE ErrorNone]
            /\ pc' = pc
    /\ _f' = IF FeaturesUnsupported(array) \/ _f = NULL \/ flushFails THEN _f
             ELSE [_f EXCEPT !.pos = @ + Len(JpegStream(array))]
    /\ op' = Call("writeArray", -1, _f.pos, -1)
    /\ UNCHANGED <<seekable, wlog, _arrayCount, _arrayOffsets, nOpen, error>>

\* A JPEG stream that is opened for writing, written and closed.
NextJpeg ==
    \/ \E m \in Media, append \in BOOLEAN : JpegOpenForWriting(m, append)
    \/ JpegClose
    \/ \E array \in JpegArrays, flushFails \in BOOLEAN : JpegWriteArray(array, flushFails)

SpecJpeg == Init /\ [][NextJpeg]_vars

(* ----------------------- media that exist beforehand ------------------- *)

\* bytes with the byte at offset at replaced by b.
Poke(bytes, at, b) == [bytes EXCEPT ![at + 1] = b]

\* The first n bytes.
Cut(bytes, n) == SubSeq(bytes, 1, n)

TaggedBytes == writeTad(TaggedArray).bytes
PlainBytes == writeTad(PlainArray).bytes

\* What g may hold: records written by this writer, and such records
\* damaged: a wrong magic byte, a reserved byte that is not 0, the type
\* code 16, a file cut inside the payload of its first (global), second
\* (component) or third (dimension) tag block, and files cut inside the
\* data of their last record.  log describes the content when it is what
\* the writer wrote.
External ==
    { [bytes |-> LogBytes(LogOf(arrays, 0)), log |-> LogOf(arrays, 0)] :
        arrays \in {<<TaggedArray>>, <<PlainArray>>,
                    <<TaggedArray, PlainArray>>, <<TaggedArray, TaggedArray>>} }
    \cup
    { [bytes |-> b, log |-> <<>>] :
        b \in {Poke(TaggedBytes, 0, 88), Poke(TaggedBytes, 3, 1),
               Poke(TaggedBytes, 4, 16),
               TaggedBytes \o Poke(TaggedBytes, 2, 100),
               Cut(TaggedBytes, 21 + 8 + 8 + 2),
               Cut(TaggedBytes, 21 + 8 + 13 + 8 + 2),
               Cut(TaggedBytes, 21 + 8 + 13 + 13 + 8 + 4),
               Cut(PlainBytes \o PlainBytes, 2 * Len(PlainBytes) - 1),
               Cut(TaggedBytes \o TaggedBytes, 2 * Len(TaggedBytes) - 1)} }

\* g is a regular file or a pipe, with one of these contents.
InitExt ==
    \E x \in External, seek \in BOOLEAN : Constructed(x.bytes, x.log, seek)

\* A stream that reads g; its caller opens it when it is closed.
NextExt ==
    \/ _f = NULL /\ OpenForReading("g")
    \/ \E fails \in BOOLEAN : Close(fails)
    \/ \E oob \in OobChoices : ArrayCount(oob)
    \/ \E arrayIndex \in Indices, oob \in OobChoices : ReadArray(arrayIndex, oob)
    \/ HasMore

SpecExt == InitExt /\ [][NextExt]_vars

\* A stream that reads g and the empty file f in turn: its caller opens
\* either when the stream is closed, counts, reads on and closes.
NextReopen ==
    \/ \E m \in Media : _f = NULL /\ OpenForReading(m)
    \/ \E fails \in BOOLEAN : Close(fails)
    \/ \E oob \in OobChoices : ArrayCount(oob)
    \/ \E oob \in OobChoices : Reading /\ ReadArray(-1, oob)
    \/ Reading /\ HasMore

SpecReopen == InitExt /\ [][NextReopen]_vars

(* --------------------------- the tag block decoder --------------------- *)

\* The bytes tag payloads are drawn from: NUL, BEL, "k" and "v".
TagBytes == {0, 7, 107, 118}

\* The payloads of up to MaxPayload bytes.
Payloads == UNION {[1..n -> TagBytes] : n \in 0..MaxPayload}

\* g holds one tag block, its length as declared, and is open for reading
\* at offset 0.
InitTag ==
    \E payload \in Payloads :
        /\ fs = [m \in Media |-> IF m = "g" THEN U64(Len(payload)) \o payload ELSE <<>>]
        /\ seekable = [m \in Media |-> TRUE]
        /\ wlog = [m \in Media |-> <<>>]
        /\ _f = [name |-> "g", pos |-> 0, mode |-> "rb", buf |-> <<>>]
        /\ _arrayCount = -2
        /\ _arrayOffsets = <<>>
        /\ nOpen = 1
        /\ pc = "run"
        /\ op = Call("fopen", -1, -1, -1)
        /\ ret = NoRet
        /\ error = ErrorNone

\* readTadTagList(_f, tl) on an empty tl.
ReadTagList(oob) ==
    /\ pc = "run"
    /\ _f # NULL
    /\ LET r == readTadTagList(fs[_f.name], _f.pos, _f.mode = "rb", oob)
       IN  /\ _f' = [_f EXCEPT !.pos = r.pos]
           /\ pc' = IF r.error = "Crash" THEN "crashed" ELSE "run"
           /\ ret' = [NoRet EXCEPT !.error = r.error, !.tl = r.tl]
    /\ op' = Call("readTadTagList", -1, _f.pos, -1)
    /\ UNCHANGED <<fs, seekable, wlog, _arrayCount, _arrayOffsets, nOpen, error>>

NextTag == \E oob \in OobChoices : ReadTagList(oob)

SpecTag == InitTag /\ [][NextTag]_vars

(* ------------------------------ properties ---------------------------- *)

\* The file m holds exactly the records its log tells, and every
\* writeArray that emitted one reported success.
Intact(m) == fs[m] = LogBytes(wlog[m]) /\ \A i \in 1..Len(wlog[m]) : wlog[m][i].ok

\* The offsets at which the records of m were written.
WrittenOffsets(m) == [i \in 1..Len(wlog[m]) |-> wlog[m][i].offset]

\* The object holds nothing of a scan of another content: no count but
\* that of m, no offset but the leading ones of m.
NoStaleScan(m) ==
    /\ _arrayCount \in {-2, Len(wlog[m])}
    /\ Len(_arrayOffsets) <= Len(wlog[m])
    /\ _arrayOffsets = SubSeq(WrittenOffsets(m), 1, Len(_arrayOffsets))

\* The last call was readArray(&error, -1), issued at the offset where
\* the i-th record of the open file was written.
SequentialReadOf(i) ==
    /\ pc = "run" /\ Reading
    /\ op.name = "readArray" /\ op.index < 0
    /\ i \in 1..Len(wlog[_f.name])
    /\ op.pos0 = wlog[_f.name][i].offset

\* C1 -- round trip: a container written by a successful writeArray and
\* read back by readArray from the written bytes comes back identical in
\* dimensions, component count, type, data and the tag lists of the three
\* scopes.
C1_RoundTrip ==
    \A i \in 1..MaxRecords :
        (SequentialReadOf(i) /\ Intact(_f.name))
            => ret.array = wlog[_f.name][i].array

\* C2 -- record counting: K containers written to a stream, the file opened
\* for reading: arrayCount() returns K.
C2_RecordCount ==
    (pc = "run" /\ Reading /\ op.name = "arrayCount"
        /\ Intact(_f.name) /\ NoStaleScan(_f.name))
        => ret.count = Len(wlog[_f.name])

\* C3 -- indexed access: on a stream of K >= 1 records readArray(i), for
\* 0 <= i < K, returns the i-th written container, whatever was read from
\* the stream before.
C3_IndexedAccess ==
    (pc = "run" /\ Reading /\ op.name = "readArray"
        /\ op.index >= 0 /\ op.index < Len(wlog[_f.name])
        /\ Intact(_f.name) /\ NoStaleScan(_f.name))
        => ret.array = wlog[_f.name][op.index + 1].array

\* The file behind the handle was made by one writeArray on a stream
\* opened with append = false and one on a stream opened with append =
\* true, and no byte written was lost.
Appended ==
    /\ Reading
    /\ Len(wlog[_f.name]) = 2
    /\ ~wlog[_f.name][1].append /\ wlog[_f.name][2].append
    /\ wlog[_f.name][1].ok /\ wlog[_f.name][2].ok
    /\ Len(fs[_f.name]) = Len(LogBytes(wlog[_f.name]))

\* C4 -- append: one record written, the file closed, reopened with append
\* = true, a second record written, the file closed: the first record's
\* bytes are kept, the second starts at the former end of the file, and
\* reading yields the two records in write order and then no more.
C4_Append ==
    Appended =>
        /\ wlog[_f.name][2].offset = Len(writeTad(wlog[_f.name][1].array).bytes)
        /\ fs[_f.name] = writeTad(wlog[_f.name][1].array).bytes
                         \o writeTad(wlog[_f.name][2].array).bytes
        /\ \A i \in 1..2 : SequentialReadOf(i) => ret.array = wlog[_f.name][i].array
        /\ (pc = "run" /\ op.name = "hasMore")
               => (ret.more <=> _f.pos < Len(fs[_f.name]))

\* C5 -- sequential-only stream: on a medium that cannot seek, the reads
\* readArray(-1) return the records in written order, arrayCount() answers
\* the unknown sentinel -1, and readArray(0) fails with seeking-not-
\* supported and leaves the stream where it stood.
C5_SequentialOnly ==
    (pc = "run" /\ Reading /\ ~seekable[_f.name] /\ Intact(_f.name)) =>
        /\ \A i \in 1..MaxRecords :
               SequentialReadOf(i) => ret.array = wlog[_f.name][i].array
        /\ op.name = "arrayCount" => ret.count = -1
        /\ (op.name = "readArray" /\ op.index = 0)
               => /\ error = ErrorSeekingNotSupported
                  /\ ret.array = EmptyArray
                  /\ _f.pos = op.pos0

\* The 21 bytes of a preamble lie at offset pos and are not those of a
\* record: a magic other than "TAD", a reserved byte that is not 0, or a
\* type code of 16 or more.
CorruptHeaderAt(bytes, pos) ==
    /\ pos >= 0 /\ pos + 21 <= Len(bytes)
    /\ \/ SubSeq(bytes, pos + 1, pos + 3) # <<84, 65, 68>>
       \/ bytes[pos + 4] # 0
       \/ bytes[pos + 5] >= 16

\* The offset of the record a readArray call is to read, when the call
\* tells it: where the stream stood for the next record, the start of the
\* file for the record 0.
ReadPosition == IF op.index < 0 THEN op.pos0 ELSE IF op.index = 0 THEN 0 ELSE -1

\* readArray failed with invalid-data and returned the default container.
RejectedAsInvalid == error = ErrorInvalidData /\ ret.array = EmptyArray

RECURSIVE TruncatedBlock(_, _, _)
\* Of the `blocks` tag blocks that begin at offset p, one declares more
\* payload bytes than the file holds behind its 8-byte length.
TruncatedBlock(bytes, p, blocks) ==
    IF blocks = 0 \/ p + 8 > Len(bytes) THEN FALSE
    ELSE IF p + 8 + ReadU64(bytes, p) > Len(bytes) THEN TRUE
    ELSE TruncatedBlock(bytes, p + 8 + ReadU64(bytes, p), blocks - 1)

\* A record with a sound preamble and dimension sizes lies at offset pos,
\* and one of its tag blocks is truncated.
TruncatedTagBlockAt(bytes, pos) ==
    /\ pos >= 0 /\ pos + 21 <= Len(bytes)
    /\ ~CorruptHeaderAt(bytes, pos)
    /\ pos + 21 + 8 * ReadU64(bytes, pos + 13) <= Len(bytes)
    /\ TruncatedBlock(bytes, pos + 21 + 8 * ReadU64(bytes, pos + 13),
                      1 + ReadU64(bytes, pos + 5) + ReadU64(bytes, pos + 13))

\* C7 -- truncated tag block: a readArray that parses a record one of
\* whose tag blocks declares more bytes than remain in the file reports
\* invalid-data and returns the default container.
C7_TruncatedTagBlock ==
    (pc = "run" /\ Reading /\ op.name = "readArray"
        /\ TruncatedTagBlockAt(fs[_f.name], op.hpos))
        => RejectedAsInvalid

\* The payload of the tag block that g holds.
Payload == SubSeq(fs["g"], 9, Len(fs["g"]))

\* A payload of whole strings, key and value in turn, each with its NUL,
\* the first key not empty.
WholeStrings(p) ==
    /\ p # <<>> /\ p[1] # 0 /\ p[Len(p)] = 0
    /\ Cardinality({j \in 1..Len(p) : p[j] = 0}) % 2 = 0

\* The byte is an ASCII control character.
Control(b) == (b > 0 /\ b < 32) \/ b = 127

\* C8 -- control characters: a tag block one of whose keys or values holds
\* a control character (0x07, be it the first or the only character of a
\* value) fails to decode with invalid-data.
C8_ControlCharacter ==
    (pc = "run" /\ op.name = "readTadTagList" /\ op.pos0 = 0
        /\ WholeStrings(Payload)
        /\ \E j \in 1..Len(Payload) : Control(Payload[j]))
        => ret.error = ErrorInvalidData

\* C9 -- empty TagList: it is encoded as the length 0 and no payload, and
\* a tag block of length 0 decodes without error to the empty TagList,
\* its 8 bytes consumed.
C9_EmptyTagList ==
    /\ writeTadTagList(<<>>) = U64(0)
    /\ (op.name = "readTadTagList" /\ op.pos0 = 0 /\ fs["g"] = U64(0))
           => /\ pc = "run"
              /\ ret.error = ErrorNone
              /\ ret.tl = <<>>
              /\ _f.pos = 8

\* The record the last writeArray emitted.
LastWritten == wlog[_f.name][Len(wlog[_f.name])]

\* C10 -- degenerate arrays: writeArray of a container without data bytes
\* emits the header and the tag blocks, no data byte, and returns success;
\* readArray of that record returns a container of the same shape.
C10_DegenerateArray ==
    /\ (pc = "run" /\ Writing /\ op.name = "writeArray"
           /\ dataSize(LastWritten.array) = 0)
           => /\ _f.pos = op.pos0 + Len(writeTad(LastWritten.array).bytes)
              /\ ret.error = ErrorNone
    /\ \A i \in 1..MaxRecords :
           (SequentialReadOf(i) /\ fs[_f.name] = LogBytes(wlog[_f.name])
               /\ dataSize(wlog[_f.name][i].array) = 0)
               => ret.array = wlog[_f.name][i].array

\* C11 -- close is idempotent and always releases the handle: after
\* close(), failed or not, the stream holds no handle and the one it held
\* is released once; a close() without a handle returns none and releases
\* nothing, and so does the destructor after close(): no handle is ever
\* closed twice.
C11_CloseIdempotent ==
    /\ [](nOpen >= 0)
    /\ [][/\ op'.name = "close"
              => /\ _f' = NULL
                 /\ nOpen' = IF _f = NULL THEN nOpen ELSE nOpen - 1
                 /\ _f = NULL => ret'.error = ErrorNone
          /\ (op'.name = "destroy" /\ _f = NULL) => nOpen' = nOpen]_vars

\* A close() right after a close(): it returned none and no handle is
\* left open.
C11_Witness ==
    /\ op.name = "close" /\ op.afterClose
    /\ ret.error = ErrorNone
    /\ _f = NULL /\ nOpen = 0

\* A container the JPEG codec can encode: two dimensions, both sizes in
\* [1, 2^31 - 1], type uint8, one or three components.
JpegEncodable(array) ==
    /\ Len(array.dimensions) = 2
    /\ \A d \in 1..2 : array.dimensions[d].high = 0 /\ array.dimensions[d].low >= 1
    /\ array.componentType = uint8
    /\ array.componentCount \in {1, 3}

\* C12 -- the JPEG codec refuses what it cannot encode and touches no file:
\* openForWriting with append = true returns unsupported-feature and leaves
\* the handle and every file as they were; writeArray of a container that
\* is not encodable returns unsupported-feature and writes nothing; an
\* encodable container is never answered with unsupported-feature.
C12_JpegUnsupported ==
    [][/\ \A m \in Media :
              JpegOpenForWriting(m, TRUE)
                  => /\ ret'.error = ErrorFeaturesUnsupported
                     /\ UNCHANGED <<fs, _f, nOpen>>
       /\ \A array \in JpegArrays, flushFails \in BOOLEAN :
              JpegWriteArray(array, flushFails)
                  => IF JpegEncodable(array)
                     THEN ret'.error # ErrorFeaturesUnsupported
                     ELSE /\ ret'.error = ErrorFeaturesUnsupported
                          /\ UNCHANGED <<fs, _f, nOpen>>]_vars

\* writeArray refused a container on an open, still empty file.
C12_Witness ==
    /\ op.name = "writeArray"
    /\ ret.error = ErrorFeaturesUnsupported
    /\ _f # NULL /\ _f.mode = "wb" /\ _f.pos = 0
    /\ fs[_f.name] = <<>>

RECURSIVE Strings(_, _)
\* The strings of the payload p from index from on, each the bytes up to
\* its NUL; bytes behind the last NUL are left out.
Strings(p, from) ==
    IF \A j \in from..Len(p) : p[j] # 0 THEN <<>>
    ELSE LET nul == CHOOSE j \in from..Len(p) :
                        p[j] = 0 /\ \A h \in from..(j - 1) : p[h] # 0
         IN  <<SubSeq(p, from, nul - 1)>> \o Strings(p, nul + 1)

\* The pairs a payload of whole strings spells: key, value, key, value.
PairsOf(p) ==
    [j \in 1..(Len(Strings(p, 1)) \div 2) |->
        <<Strings(p, 1)[2 * j - 1], Strings(p, 1)[2 * j]>>]

\* The payload is the strings of one pair or more, printable, each with
\* its NUL, no key empty, no key twice.
ExactPayload(p) ==
    /\ p # <<>> /\ p[Len(p)] = 0
    /\ Len(Strings(p, 1)) % 2 = 0
    /\ \A j \in 1..Len(p) : ~Control(p[j])
    /\ \A j \in 1..Len(PairsOf(p)) : PairsOf(p)[j][1] # <<>>
    /\ \A i, j \in 1..Len(PairsOf(p)) : PairsOf(p)[i][1] = PairsOf(p)[j][1] => i = j

\* C13 -- tag block decoding is exact: a payload that is the NUL-
\* terminated keys and values of P pairs decodes without error to those P
\* pairs in payload order, every string whole, all n bytes consumed.
C13_ExactDecoding ==
    (op.name = "readTadTagList" /\ op.pos0 = 0 /\ ExactPayload(Payload))
        => /\ pc = "run"
           /\ ret.error = ErrorNone
           /\ ret.tl = PairsOf(Payload)
           /\ _f.pos = 8 + Len(Payload)

\* A string of the payload has no NUL within it, or the last key has no
\* value after it.
Unterminated(p) ==
    /\ p # <<>>
    /\ p[Len(p)] # 0 \/ Len(Strings(p, 1)) % 2 = 1

\* C14 -- unterminated strings: a payload one of whose strings has no NUL
\* within the n bytes (a key without a value included) fails to decode
\* with invalid-data, and the decoder never reads behind the payload:
\* what lies behind the buffer changes nothing of what it answers.
C14_NoOverRead ==
    (op.name = "readTadTagList" /\ op.pos0 = 0) =>
        /\ Unterminated(Payload) => (pc = "run" /\ ret.error = ErrorInvalidData)
        /\ \A oob \in OobChoices :
               readTadTagList(fs["g"], 0, TRUE, oob)
                   = readTadTagList(fs["g"], 0, TRUE, <<0>>)

\* C15 -- arrayCount is computed once: on an open stream, a call that
\* follows a call that has returned returns the same result, leaves the
\* stream where it stands and adds nothing to the offset table.
C15_CountCached ==
    [][(op.name = "arrayCount" /\ _f # NULL /\ pc = "run" /\ op'.name = "arrayCount")
          => /\ ret'.count = ret.count
             /\ _f' = _f
             /\ _arrayOffsets' = _arrayOffsets
             /\ pc' = "run"]_vars

\* The container readArray(&error, -1) would return from the open stream
\* were it to stand at offset pos.
NextRecordAt(pos, oob) ==
    readRecord([_f EXCEPT !.pos = pos], fs[_f.name], error, oob).array

\* C16 -- queries do not move the read cursor: on a file of whole records
\* hasMore() is true exactly when a byte remains and leaves the stream
\* where it stood, an arrayCount() that returns a count does so too, and
\* the record the next readArray(-1) returns is the one it would have
\* returned had hasMore() or arrayCount() not been called.
C16_QueriesKeepCursor ==
    (pc = "run" /\ Reading /\ Intact(_f.name)
        /\ op.name \in {"hasMore", "arrayCount"}) =>
        /\ op.name = "hasMore"
               => /\ ret.more <=> op.pos0 < Len(fs[_f.name])
                  /\ _f.pos = op.pos0
        /\ (op.name = "arrayCount" /\ ret.count >= 0) => _f.pos = op.pos0
        /\ \A oob \in OobChoices :
               NextRecordAt(_f.pos, oob) = NextRecordAt(op.pos0, oob)

\* C17 -- the scan cache: whenever the object holds a count N >= 0 and a
\* stream open for reading on a file of whole records, the offset table
\* has N entries, the offsets of the records of that file, in order --
\* after a scan that gave up and a later one, and after close and an open
\* on another file.
C17_ScanCache ==
    (pc = "run" /\ Reading /\ Intact(_f.name) /\ _arrayCount >= 0) =>
        /\ Len(_arrayOffsets) = _arrayCount
        /\ _arrayOffsets = WrittenOffsets(_f.name)

\* C18 -- the error readArray reports through its pointer describes the
\* call that just returned: it is ErrorNone after a read that returned a
\* container, whatever the variable held before, and it is another code
\* exactly when the absent default container came back.
C18_ErrorOfThisCall ==
    (pc = "run" /\ op.name = "readArray") =>
        (error # ErrorNone <=> ret.array = EmptyArray)

\* C19 -- the count is usable: once arrayCount() holds N >= 0, every
\* readArray(&error, i) with 0 <= i < N returns a container; a record
\* whose data stops short of the declared size is not among the N.
C19_CountedIsReadable ==
    (pc = "run" /\ op.name = "readArray"
        /\ op.index >= 0 /\ op.index < _arrayCount)
        => ret.array # EmptyArray

\* C20 -- no handle leak: the object never has more than one handle open,
\* and after close() or the destructor every handle it opened is closed --
\* the stream opened again while open and an open that fails while open
\* included.
C20_NoHandleLeak ==
    /\ nOpen <= 1
    /\ op.name \in {"close", "destroy"} => nOpen = 0

====
